---- MODULE Spec2Model ----
(***************************************************************************)
(* Model of treaccp: a Merkle-committed treap (treaccp/nodes.py), the      *)
(* accumulator that holds only its Merkle root (treaccp/acc.py) and the    *)
(* element facade (treaccp/tree.py).                                       *)
(*                                                                         *)
(* Nodes are records tagged "N" (Node), "C" (CompressedNode) or "None"     *)
(* (Python None).  A digest is a sequence: the hash H is modelled as an    *)
(* injective constructor over its input (collision resistance), and the    *)
(* input of a node hash is the text str(key) + str(prior) followed by the  *)
(* two child digests.                                                      *)
(***************************************************************************)
EXTENDS Integers, Sequences, FiniteSets, TLC

VARIABLES root, elements, acc, ctree, proof, last

vars == <<root, elements, acc, ctree, proof, last>>

----------------------------------------------------------------------------
(* Bounds *)

\* elements are 1..MaxEl
MaxEl == 4

\* longest list handed to insert_many / remove_many
MaxBatch == 2

Elements == 1..MaxEl

----------------------------------------------------------------------------
(* Hashing and derivation *)

OK == "ok"

\* Python None as a value of a node-valued variable
Nil == [tag |-> "None"]

\* Python None as the value of Treaccp.merkle_root of an empty tree
PyNone == <<"None">>

\* decimal text of a non-negative integer, as a sequence of digits
RECURSIVE str(_)
str(n) == IF n < 10 THEN <<n>> ELSE Append(str(n \div 10), n % 10)

\* H applied to the text of a node: injective in the text and the digests
H(node_hash, left_hash, right_hash) == <<node_hash, left_hash, right_hash>>

\* H("None")
HASH_NONE == <<>>

\* int(H(el), 16): a fixed pseudorandom injective table (two-digit keys,
\* some of them numerically adjacent)
KeyTable == <<41, 17, 42, 29, 68, 53, 16, 90>>

to_key(el) == KeyTable[el]

\* int(H(str(key)), 16): pseudorandom and injective on the keys
to_priority(key) == (key * 37) % 101

----------------------------------------------------------------------------
(* Nodes *)

IsNone(t) == t.tag = "None"
IsNode(t) == t.tag = "N"
IsCompressed(t) == t.tag = "C"

CompressedNode_compute_merkle_root(key, prior, left_hash, right_hash) ==
    H(str(key) \o str(prior), left_hash, right_hash)

CompressedNode(key, left_hash, right_hash) ==
    [tag |-> "C", key |-> key, prior |-> to_priority(key),
     left_hash |-> left_hash, right_hash |-> right_hash,
     merkle_root |-> CompressedNode_compute_merkle_root(
                         key, to_priority(key), left_hash, right_hash)]

\* the digest recomputed from the whole subtree (recurse=True)
RECURSIVE Recomputed(_)
Recomputed(t) ==
    IF IsNone(t) THEN HASH_NONE
    ELSE IF IsCompressed(t)
    THEN CompressedNode_compute_merkle_root(t.key, t.prior, t.left_hash, t.right_hash)
    ELSE H(str(t.key) \o str(t.prior), Recomputed(t.left), Recomputed(t.right))

\* t.compute_merkle_root() with the defaults recurse=True, verify=True: the
\* recomputed digest, or AssertionError when a stored merkle_root of a Node
\* of t differs from the recomputed one
RECURSIVE compute_merkle_root(_)
compute_merkle_root(t) ==
    LET hashed(l, r) ==
            IF l.err # OK THEN l
            ELSE IF r.err # OK THEN r
            ELSE IF t.merkle_root # H(str(t.key) \o str(t.prior), l.val, r.val)
            THEN [err |-> "AssertionError"]
            ELSE [err |-> OK, val |-> t.merkle_root]
        child(c) == IF c.tag = "None" THEN [err |-> OK, val |-> HASH_NONE]
                    ELSE compute_merkle_root(c)
    IN IF IsCompressed(t)
       THEN [err |-> OK,
             val |-> CompressedNode_compute_merkle_root(
                         t.key, t.prior, t.left_hash, t.right_hash)]
       ELSE hashed(child(t.left), child(t.right))

\* _tree_hash that takes a child's digest for HASH_NONE when it is told not
\* to recurse
tree_hash_shallow(t, recurse) ==
    IF IsNone(t) THEN HASH_NONE
    ELSE IF recurse THEN Recomputed(t)
    ELSE HASH_NONE

\* _tree_hash of Node.compute_merkle_root
tree_hash(t, recurse) ==
    IF IsNone(t) THEN HASH_NONE
    ELSE IF recurse THEN Recomputed(t)
    ELSE t.merkle_root

\* Node.__init__; prior = -1 stands for prior=None
Node(key, prior, left, right, recursive_merkle) ==
    LET p == IF prior = -1 THEN to_priority(key) ELSE prior
    IN [tag |-> "N", key |-> key, prior |-> p, left |-> left, right |-> right,
        merkle_root |-> H(str(key) \o str(p),
                          tree_hash(left, recursive_merkle),
                          tree_hash(right, recursive_merkle))]

compress(t) ==
    CompressedNode(t.key,
                   IF IsNone(t.left) THEN HASH_NONE ELSE t.left.merkle_root,
                   IF IsNone(t.right) THEN HASH_NONE ELSE t.right.merkle_root)

----------------------------------------------------------------------------
(* split, merge, find, insert, remove *)

Raise(e) == [err |-> e]

RECURSIVE split(_, _, _)
split(t, key, equal_on_the_left) ==
    LET right_split(s) ==
            IF s.err # OK THEN s
            ELSE [err |-> OK,
                  L |-> Node(t.key, t.prior, t.left, s.L, FALSE),
                  R |-> s.R]
        left_split(s) ==
            IF s.err # OK THEN s
            ELSE [err |-> OK,
                  L |-> s.L,
                  R |-> Node(t.key, t.prior, s.R, t.right, FALSE)]
    IN IF IsCompressed(t) THEN Raise("ErrTouchedCompressedNode")
       ELSE IF IsNone(t) THEN [err |-> OK, L |-> Nil, R |-> Nil]
       ELSE IF t.key < key \/ (equal_on_the_left /\ t.key = key)
       THEN right_split(split(t.right, key, equal_on_the_left))
       ELSE left_split(split(t.left, key, equal_on_the_left))

\* merge that puts the lower priority on top
RECURSIVE merge_min_heap(_, _)
merge_min_heap(t1, t2) ==
    LET root_t1(m) ==
            IF m.err # OK THEN m
            ELSE [err |-> OK, val |-> Node(t1.key, t1.prior, t1.left, m.val, FALSE)]
        root_t2(m) ==
            IF m.err # OK THEN m
            ELSE [err |-> OK, val |-> Node(t2.key, t2.prior, m.val, t2.right, FALSE)]
    IN IF IsCompressed(t1) \/ IsCompressed(t2) THEN Raise("ErrTouchedCompressedNode")
       ELSE IF IsNone(t1) THEN [err |-> OK, val |-> t2]
       ELSE IF IsNone(t2) THEN [err |-> OK, val |-> t1]
       ELSE IF t1.prior < t2.prior
       THEN root_t1(merge_min_heap(t1.right, t2))
       ELSE root_t2(merge_min_heap(t1, t2.left))

RECURSIVE merge(_, _)
merge(t1, t2) ==
    LET root_t1(m) ==
            IF m.err # OK THEN m
            ELSE [err |-> OK, val |-> Node(t1.key, t1.prior, t1.left, m.val, FALSE)]
        root_t2(m) ==
            IF m.err # OK THEN m
            ELSE [err |-> OK, val |-> Node(t2.key, t2.prior, m.val, t2.right, FALSE)]
    IN IF IsCompressed(t1) \/ IsCompressed(t2) THEN Raise("ErrTouchedCompressedNode")
       ELSE IF IsNone(t1) THEN [err |-> OK, val |-> t2]
       ELSE IF IsNone(t2) THEN [err |-> OK, val |-> t1]
       ELSE IF t1.prior > t2.prior
       THEN root_t1(merge(t1.right, t2))
       ELSE root_t2(merge(t1, t2.left))

\* find that takes a compressed node for the end of the search
RECURSIVE find_blind(_, _)
find_blind(t, key) ==
    IF IsCompressed(t) \/ IsNone(t) THEN [err |-> OK, val |-> Nil]
    ELSE IF t.key = key THEN [err |-> OK, val |-> t]
    ELSE find_blind(IF key >= t.key THEN t.right ELSE t.left, key)

RECURSIVE find(_, _)
find(t, key) ==
    IF IsCompressed(t) THEN Raise("ErrTouchedCompressedNode")
    ELSE IF IsNone(t) THEN [err |-> OK, val |-> Nil]
    ELSE IF t.key = key THEN [err |-> OK, val |-> t]
    ELSE find(IF key >= t.key THEN t.right ELSE t.left, key)

\* insert that puts the new node on top of the two parts, whatever the
\* priorities are
insert_on_top(t, key) ==
    LET checked(s, f) ==
            IF f.err # OK THEN f
            ELSE IF ~IsNone(f.val) THEN Raise("ErrKeyInTree")
            ELSE [err |-> OK, val |-> Node(key, -1, s.L, s.R, FALSE)]
        splitted(s) == IF s.err # OK THEN s ELSE checked(s, find(s.R, key))
    IN splitted(split(t, key, FALSE))

\* insert that does not look for the key before merging
insert_unchecked(t, key) ==
    LET merged(L, m) == IF m.err # OK THEN m ELSE merge(L, m.val)
        splitted(s) ==
            IF s.err # OK THEN s
            ELSE merged(s.L, merge(Node(key, -1, Nil, Nil, TRUE), s.R))
    IN splitted(split(t, key, FALSE))

insert(t, key) ==
    LET merged(L, m) == IF m.err # OK THEN m ELSE merge(L, m.val)
        checked(s, f) ==
            IF f.err # OK THEN f
            ELSE IF ~IsNone(f.val) THEN Raise("ErrKeyInTree")
            ELSE merged(s.L, merge(Node(key, -1, Nil, Nil, TRUE), s.R))
        splitted(s) == IF s.err # OK THEN s ELSE checked(s, find(s.R, key))
    IN splitted(split(t, key, FALSE))

\* remove that drops what follows the removed key instead of merging it back
remove_drop_right(t, key) ==
    LET second(s, s2) ==
            IF s2.err # OK THEN s2
            ELSE IF IsNone(s2.L) THEN Raise("ErrKeyNotInTree")
            ELSE [err |-> OK, val |-> s.L]
        first(s) ==
            IF s.err # OK THEN s
            ELSE IF ~IsNone(s.R) THEN second(s, split(s.R, key, TRUE))
            ELSE merge(s.L, s.R)
    IN first(split(t, key, FALSE))

remove(t, key) ==
    LET second(s, s2) ==
            IF s2.err # OK THEN s2
            ELSE IF IsNone(s2.L) THEN Raise("ErrKeyNotInTree")
            ELSE merge(s.L, s2.R)
        first(s) ==
            IF s.err # OK THEN s
            ELSE IF ~IsNone(s.R) THEN second(s, split(s.R, key, TRUE))
            ELSE merge(s.L, s.R)
    IN first(split(t, key, FALSE))

\* the loop of build_treap, insert_many and Acc.insert_many: insert the
\* keys in order, the first exception ends it
RECURSIVE insert_all(_, _)
insert_all(t, keys) ==
    IF keys = <<>> THEN [err |-> OK, val |-> t]
    ELSE LET next(r) == IF r.err # OK THEN r ELSE insert_all(r.val, Tail(keys))
         IN next(insert(t, Head(keys)))

RECURSIVE remove_all(_, _)
remove_all(t, keys) ==
    IF keys = <<>> THEN [err |-> OK, val |-> t]
    ELSE LET next(r) == IF r.err # OK THEN r ELSE remove_all(r.val, Tail(keys))
         IN next(remove(t, Head(keys)))

Keys(els) == [i \in 1..Len(els) |-> to_key(els[i])]

build_treap(els) == insert_all(Nil, Keys(els))

----------------------------------------------------------------------------
(* Compressed projections and proofs *)

\* _compress_tree_for that leaves the children of the node found as they
\* are in the tree
RECURSIVE compress_tree_for_open(_, _)
compress_tree_for_open(t, key) ==
    LET compressed(c) == IF IsNone(c) THEN Nil ELSE compress(c)
        on_right(r) ==
            IF r.err # OK THEN r
            ELSE [err |-> OK,
                  val |-> Node(t.key, t.prior, compressed(t.left), r.val, FALSE)]
        on_left(l) ==
            IF l.err # OK THEN l
            ELSE [err |-> OK,
                  val |-> Node(t.key, t.prior, l.val, compressed(t.right), FALSE)]
    IN IF IsCompressed(t) THEN Raise("AttributeError")
       ELSE IF t.key = key
       THEN [err |-> OK, val |-> Node(t.key, t.prior, t.left, t.right, TRUE)]
       ELSE IF key > t.key
       THEN IF IsNone(t.right) THEN Raise("ErrKeyNotInTree")
            ELSE on_right(compress_tree_for_open(t.right, key))
       ELSE IF IsNone(t.left) THEN Raise("ErrKeyNotInTree")
            ELSE on_left(compress_tree_for_open(t.left, key))

RECURSIVE compress_tree_for(_, _)
compress_tree_for(t, key) ==
    LET compressed(c) == IF IsNone(c) THEN Nil ELSE compress(c)
        on_right(r) ==
            IF r.err # OK THEN r
            ELSE [err |-> OK,
                  val |-> Node(t.key, t.prior, compressed(t.left), r.val, FALSE)]
        on_left(l) ==
            IF l.err # OK THEN l
            ELSE [err |-> OK,
                  val |-> Node(t.key, t.prior, l.val, compressed(t.right), FALSE)]
    IN IF IsCompressed(t) THEN Raise("AttributeError")
       ELSE IF t.key = key
       THEN [err |-> OK,
             val |-> Node(t.key, t.prior, compressed(t.left), compressed(t.right), TRUE)]
       ELSE IF key > t.key
       THEN IF IsNone(t.right) THEN Raise("ErrKeyNotInTree")
            ELSE on_right(compress_tree_for(t.right, key))
       ELSE IF IsNone(t.left) THEN Raise("ErrKeyNotInTree")
            ELSE on_left(compress_tree_for(t.left, key))

prove_inclusion(t, key) ==
    LET sanity(p, c) ==
            IF c.err # OK THEN c
            ELSE IF t.merkle_root # c.val THEN Raise("AssertionError")
            ELSE p
        projected(p) == IF p.err # OK THEN p ELSE sanity(p, compute_merkle_root(p.val))
    IN projected(compress_tree_for(t, key))

\* the list of nodes visited by the search for key; its last entry is the
\* node found or Nil
RECURSIVE find_path(_, _)
find_path(t, key) ==
    LET cons(p) == IF p.err # OK THEN p ELSE [err |-> OK, val |-> <<t>> \o p.val]
    IN IF IsNone(t) THEN [err |-> OK, val |-> <<Nil>>]
       ELSE IF t.key = key THEN [err |-> OK, val |-> <<t>>]
       ELSE IF IsCompressed(t) THEN Raise("AttributeError")
       ELSE cons(find_path(IF key >= t.key THEN t.right ELSE t.left, key))

\* prove_exclusion that hands out the tree with nothing compressed
prove_exclusion_whole(t, key) ==
    LET with(path) ==
            IF path.err # OK THEN path
            ELSE IF ~IsNone(path.val[Len(path.val)]) THEN Raise("ErrKeyInTree")
            ELSE IF Len(path.val) < 2 THEN Raise("IndexError")
            ELSE [err |-> OK, val |-> t]
    IN with(find_path(t, key))

\* prove_exclusion that reveals the root only
prove_exclusion_root(t, key) ==
    LET with(path) ==
            IF path.err # OK THEN path
            ELSE IF ~IsNone(path.val[Len(path.val)]) THEN Raise("ErrKeyInTree")
            ELSE IF Len(path.val) < 2 THEN Raise("IndexError")
            ELSE prove_inclusion(t, t.key)
    IN with(find_path(t, key))

prove_exclusion(t, key) ==
    LET with(path) ==
            IF path.err # OK THEN path
            ELSE IF ~IsNone(path.val[Len(path.val)]) THEN Raise("ErrKeyInTree")
            ELSE IF Len(path.val) < 2 THEN Raise("IndexError")
            ELSE prove_inclusion(t, path.val[Len(path.val) - 1].key)
    IN with(find_path(t, key))

RECURSIVE collect_keys(_)
collect_keys(t) ==
    IF IsNone(t) THEN {}
    ELSE IF IsCompressed(t) THEN {t.key}
    ELSE collect_keys(t.left) \cup {t.key} \cup collect_keys(t.right)

\* collect_keys(extended=True)
RECURSIVE collect_keys_extended(_)
collect_keys_extended(t) ==
    IF IsNone(t) THEN {}
    ELSE IF IsCompressed(t) THEN {<<t.key, "C", t.merkle_root>>}
    ELSE collect_keys_extended(t.left) \cup {<<t.key, "N", t.merkle_root>>}
             \cup collect_keys_extended(t.right)

\* Node.verify_inclusions(self, keys, proof); self_root is self.merkle_root
verify_inclusions(self_root, keys, prf) ==
    LET with(c) ==
            IF c.err # OK THEN c
            ELSE IF self_root # c.val THEN Raise("ErrMerkleRootMismatch")
            ELSE IF \E i \in 1..Len(keys) : keys[i] \notin collect_keys(prf)
            THEN Raise("ErrInvalidProof")
            ELSE [err |-> OK, val |-> TRUE]
    IN with(compute_merkle_root(prf))

\* the loop of verify_exclusions without the refusal of a key that is found
RECURSIVE verify_exclusions_loop_lenient(_, _)
verify_exclusions_loop_lenient(keys, prf) ==
    LET with(f) ==
            IF f.err = "ErrTouchedCompressedNode" THEN Raise("ErrInvalidProof")
            ELSE verify_exclusions_loop_lenient(Tail(keys), prf)
    IN IF keys = <<>> THEN [err |-> OK, val |-> TRUE]
       ELSE with(find(prf, Head(keys)))

\* the loop of verify_exclusions: the first key that fails decides
RECURSIVE verify_exclusions_loop(_, _)
verify_exclusions_loop(keys, prf) ==
    LET with(f) ==
            IF f.err = "ErrTouchedCompressedNode" THEN Raise("ErrInvalidProof")
            ELSE IF ~IsNone(f.val) THEN Raise("ErrKeyInTree")
            ELSE verify_exclusions_loop(Tail(keys), prf)
    IN IF keys = <<>> THEN [err |-> OK, val |-> TRUE]
       ELSE with(find(prf, Head(keys)))

\* Node.verify_exclusions(self, keys, proof)
verify_exclusions(self_root, keys, prf) ==
    LET with(c) ==
            IF c.err # OK THEN c
            ELSE IF self_root # c.val THEN Raise("ErrMerkleRootMismatch")
            ELSE verify_exclusions_loop(keys, prf)
    IN with(compute_merkle_root(prf))

\* join_two_proofs that gives way to the second proof wherever that one is
\* not a Node
RECURSIVE join_two_proofs_second(_, _)
join_two_proofs_second(a, b) ==
    IF ~IsNode(b) THEN b
    ELSE IF ~IsNode(a) THEN b
    ELSE Node(a.key, a.prior,
              join_two_proofs_second(a.left, b.left),
              join_two_proofs_second(a.right, b.right), FALSE)

RECURSIVE join_two_proofs(_, _)
join_two_proofs(a, b) ==
    LET relax_order(x) == IF IsNode(x) THEN 1 ELSE IF IsCompressed(x) THEN 2 ELSE 3
        most_relaxed == IF relax_order(a) < relax_order(b) THEN a ELSE b
    IN IF ~IsNode(a) /\ ~IsNode(b) THEN most_relaxed
       ELSE IF IsNode(a) /\ ~IsNode(b) THEN a
       ELSE IF IsNode(b) /\ ~IsNode(a) THEN b
       ELSE Node(a.key, a.prior,
                 join_two_proofs(a.left, b.left),
                 join_two_proofs(a.right, b.right), FALSE)

RECURSIVE join_fold(_, _)
join_fold(joined, proofs) ==
    IF proofs = <<>> THEN joined
    ELSE join_fold(join_two_proofs(joined, Head(proofs)), Tail(proofs))

join_proofs(proofs) ==
    LET sanity(r, joined) ==
            IF r.val # joined.merkle_root THEN Raise("AssertionError")
            ELSE [err |-> OK, val |-> joined]
        with(roots) ==
            IF \E r \in roots : r.err # OK THEN Raise("AssertionError")
            ELSE IF Cardinality(roots) # 1 THEN Raise("AssertionError")
            ELSE sanity(CHOOSE r \in roots : TRUE,
                        join_fold(Head(proofs), Tail(proofs)))
    IN with({compute_merkle_root(proofs[i]) : i \in 1..Len(proofs)})

insert_proof(t, key) ==
    LET sanity(p) ==
            IF p.err # OK THEN p
            ELSE IF t.merkle_root # p.val.merkle_root THEN Raise("AssertionError")
            ELSE p
        with(tree_path) ==
            IF tree_path.err # OK THEN tree_path
            ELSE IF ~IsNone(tree_path.val[Len(tree_path.val)]) THEN Raise("ErrKeyInTree")
            ELSE IF IsNone(t) THEN Raise("AttributeError")
            ELSE sanity(prove_exclusion(
                            t, tree_path.val[Len(tree_path.val) - 1].key + 1))
    IN with(find_path(t, key))

remove_proof(t, key) ==
    LET sanity(j) ==
            IF j.err # OK THEN j
            ELSE IF t.merkle_root # j.val.merkle_root THEN Raise("AssertionError")
            ELSE j
        joined(p1, p2) ==
            IF p1.err # OK THEN p1
            ELSE IF p2.err # OK THEN p2
            ELSE sanity(join_proofs(<<p1.val, p2.val>>))
        with(tree_path) ==
            IF tree_path.err # OK THEN tree_path
            ELSE IF IsNone(tree_path.val[Len(tree_path.val)]) THEN Raise("ErrKeyNotInTree")
            ELSE joined(prove_exclusion(t, tree_path.val[Len(tree_path.val)].key + 1),
                        prove_exclusion(t, tree_path.val[Len(tree_path.val)].key - 1))
    IN with(find_path(t, key))

\* the proofs of a list of keys, in order; the first exception ends it
RECURSIVE proofs_of(_, _, _)
proofs_of(t, keys, inserting) ==
    LET cons(p, rest) ==
            IF rest.err # OK THEN rest
            ELSE [err |-> OK, val |-> <<p.val>> \o rest.val]
        with(p) ==
            IF p.err # OK THEN p
            ELSE cons(p, proofs_of(t, Tail(keys), inserting))
    IN IF keys = <<>> THEN [err |-> OK, val |-> <<>>]
       ELSE with(IF inserting THEN insert_proof(t, Head(keys))
                 ELSE remove_proof(t, Head(keys)))

\* Node.insert_many and Node.remove_many
Node_mutate_many(self, keys, prove, inserting) ==
    LET mutated(j, res) ==
            IF res.err # OK THEN res
            ELSE [err |-> OK, val |-> res.val, proof |-> j.val]
        joined(j) ==
            IF j.err # OK THEN j
            ELSE mutated(j, IF inserting THEN insert_all(self, keys)
                            ELSE remove_all(self, keys))
        proved(ps) == IF ps.err # OK THEN ps ELSE joined(join_proofs(ps.val))
    IN IF prove THEN proved(proofs_of(self, keys, inserting))
       ELSE joined([err |-> OK, val |-> Nil])

Node_insert_many(self, keys, prove) == Node_mutate_many(self, keys, prove, TRUE)

Node_remove_many(self, keys, prove) == Node_mutate_many(self, keys, prove, FALSE)

\* is_treap that wants the lowest priority on top
is_treap_min_heap(t) ==
    LET RECURSIVE heap_ok(_)
        heap_ok(n) ==
            IF ~IsNode(n) THEN TRUE
            ELSE /\ heap_ok(n.left)
                 /\ heap_ok(n.right)
                 /\ (~IsNone(n.left) => n.prior < n.left.prior)
                 /\ (~IsNone(n.right) => n.prior < n.right.prior)
    IN IF IsNone(t) THEN Raise("AttributeError")
       ELSE IF ~heap_ok(t) THEN [err |-> "AssertionError", msg |-> "not a heap"]
       ELSE [err |-> OK, val |-> TRUE]

is_treap(t) ==
    LET RECURSIVE heap_ok(_)
        heap_ok(n) ==
            IF ~IsNode(n) THEN TRUE
            ELSE /\ heap_ok(n.left)
                 /\ heap_ok(n.right)
                 /\ n.prior > (IF IsNone(n.left) THEN -1 ELSE n.left.prior)
                 /\ n.prior > (IF IsNone(n.right) THEN -1 ELSE n.right.prior)
        RECURSIVE binary_ok(_)
        binary_ok(n) ==
            IF ~IsNode(n) THEN TRUE
            ELSE /\ (~IsNone(n.left) => n.key > n.left.key /\ binary_ok(n.left))
                 /\ (~IsNone(n.right) => n.key < n.right.key /\ binary_ok(n.right))
    IN IF IsNone(t) THEN Raise("AttributeError")
       ELSE IF ~heap_ok(t) THEN [err |-> "AssertionError", msg |-> "not a heap"]
       ELSE IF ~binary_ok(t) THEN [err |-> "AssertionError", msg |-> "not a binary tree"]
       ELSE [err |-> OK, val |-> TRUE]

----------------------------------------------------------------------------
(* Accumulator (acc.py) and facade (tree.py) *)

\* Acc.__init__: the digest taken from a node; Acc(None) has no merkle_root
Acc(node) ==
    IF IsNone(node) THEN Raise("AttributeError")
    ELSE [err |-> OK, val |-> node.merkle_root]

\* Acc.insert_many / Acc.remove_many without the comparison of the roots
Acc_mutate_many_ungated(digest, els, prf, inserting) ==
    LET made(r, a) ==
            IF a.err # OK THEN a
            ELSE [err |-> OK, val |-> a.val, tree |-> r.val]
        replayed(r) == IF r.err # OK THEN r ELSE made(r, Acc(r.val))
        with(c) ==
            IF c.err # OK THEN c
            ELSE replayed(IF inserting THEN insert_all(prf, Keys(els))
                          ELSE remove_all(prf, Keys(els)))
    IN IF IsNone(prf) THEN Raise("AttributeError")
       ELSE with(compute_merkle_root(prf))

\* Acc.insert_many / Acc.remove_many on the accumulator holding digest
Acc_mutate_many(digest, els, prf, inserting) ==
    LET made(r, a) ==
            IF a.err # OK THEN a
            ELSE [err |-> OK, val |-> a.val, tree |-> r.val]
        replayed(r) == IF r.err # OK THEN r ELSE made(r, Acc(r.val))
        with(c) ==
            IF c.err # OK THEN c
            ELSE IF digest # c.val THEN Raise("ErrMerkleRootMismatch")
            ELSE replayed(IF inserting THEN insert_all(prf, Keys(els))
                          ELSE remove_all(prf, Keys(els)))
    IN IF IsNone(prf) THEN Raise("AttributeError")
       ELSE with(compute_merkle_root(prf))

Acc_insert_many(digest, els, prf) == Acc_mutate_many(digest, els, prf, TRUE)

Acc_remove_many(digest, els, prf) == Acc_mutate_many(digest, els, prf, FALSE)

\* Acc.warp(proof, added, removed, new_proof) on the accumulator holding
\* digest; added and removed are sets of elements
Acc_warp(digest, prf, added, removed, new_proof) ==
    LET ext_old_keys == collect_keys_extended(prf)
        old_keys == {<<x[1], x[2]>> : x \in ext_old_keys}
        old_C_keys == {x \in ext_old_keys : x[2] = "C"}
        old_N_keys == {<<x[1], x[2]>> : x \in {y \in ext_old_keys : y[2] = "N"}}
        ext_new_keys == collect_keys_extended(new_proof)
        new_keys == {<<x[1], x[2]>> : x \in ext_new_keys}
        new_C_keys == {x \in ext_new_keys : x[2] = "C"}
        new_N_keys == {<<x[1], x[2]>> : x \in {y \in ext_new_keys : y[2] = "N"}}
        added_keys == {<<to_key(el), "N">> : el \in added}
        removed_keys == {<<to_key(el), "N">> : el \in removed}
        made(a) == IF a.err # OK THEN a
                   ELSE [err |-> OK, val |-> a.val, tree |-> new_proof]
        recomputed(c) == IF c.err # OK THEN c ELSE made(Acc(new_proof))
        validated(t) ==
            IF t.err # OK THEN t
            ELSE IF old_C_keys # new_C_keys THEN Raise("AssertionError")
            ELSE recomputed(compute_merkle_root(new_proof))
        with(c) ==
            IF c.err # OK THEN c
            ELSE IF digest # c.val THEN Raise("ErrMerkleRootMismatch")
            ELSE IF IsNone(new_proof) THEN Raise("AttributeError")
            ELSE IF removed_keys \cap old_N_keys # removed_keys THEN Raise("AssertionError")
            ELSE IF added_keys \cap old_keys # {} THEN Raise("AssertionError")
            ELSE IF new_N_keys \ old_N_keys # added_keys THEN Raise("AssertionError")
            ELSE IF (old_keys \cup added_keys) \ removed_keys # new_keys
            THEN Raise("AssertionError")
            ELSE validated(is_treap(new_proof))
    IN IF added \cap removed # {} THEN Raise("AssertionError")
       ELSE IF IsNone(prf) THEN Raise("AttributeError")
       ELSE with(compute_merkle_root(prf))

\* Acc.verify_inclusions / Acc.verify_exclusions on the accumulator holding
\* digest: the stored root of the proof is compared, then the proof verifies
\* itself (a CompressedNode has no verify_inclusions / verify_exclusions)
Acc_verify_inclusions(digest, els, prf) ==
    IF IsNone(prf) THEN Raise("AttributeError")
    ELSE IF digest # prf.merkle_root THEN Raise("ErrMerkleRootMismatch")
    ELSE IF IsCompressed(prf) THEN Raise("AttributeError")
    ELSE verify_inclusions(prf.merkle_root, Keys(els), prf)

Acc_verify_exclusions(digest, els, prf) ==
    IF IsNone(prf) THEN Raise("AttributeError")
    ELSE IF digest # prf.merkle_root THEN Raise("ErrMerkleRootMismatch")
    ELSE IF IsCompressed(prf) THEN Raise("AttributeError")
    ELSE verify_exclusions(prf.merkle_root, Keys(els), prf)

\* Treaccp.merkle_root
Treaccp_merkle_root(r) == IF IsNone(r) THEN PyNone ELSE r.merkle_root

\* Treaccp.to_acc
to_acc(r) == IF IsNone(r) THEN Raise("ErrNoRootNode") ELSE Acc(r)

\* Treaccp.insert_many / Treaccp.remove_many: self.root is None has no methods
Treaccp_insert_many(r, els, prove) ==
    IF IsNone(r) THEN Raise("AttributeError")
    ELSE Node_insert_many(r, Keys(els), prove)

Treaccp_remove_many(r, els, prove) ==
    IF IsNone(r) THEN Raise("AttributeError")
    ELSE Node_remove_many(r, Keys(els), prove)

\* Treaccp.prove_inclusion / prove_exclusion / insert_proof / remove_proof
Treaccp_prove_inclusion(r, el) ==
    IF IsNone(r) THEN Raise("AttributeError") ELSE prove_inclusion(r, to_key(el))

Treaccp_prove_exclusion(r, el) ==
    IF IsNone(r) THEN Raise("AttributeError") ELSE prove_exclusion(r, to_key(el))

Treaccp_insert_proof(r, el) ==
    IF IsNone(r) THEN Raise("AttributeError") ELSE insert_proof(r, to_key(el))

Treaccp_remove_proof(r, el) ==
    IF IsNone(r) THEN Raise("AttributeError") ELSE remove_proof(r, to_key(el))

\* Treaccp.verify_inclusion / verify_exclusion
Treaccp_verify_inclusion(r, el, prf) ==
    IF IsNone(r) \/ IsNone(prf) THEN Raise("AttributeError")
    ELSE verify_inclusions(r.merkle_root, <<to_key(el)>>, prf)

Treaccp_verify_exclusion(r, el, prf) ==
    IF IsNone(r) \/ IsNone(prf) THEN Raise("AttributeError")
    ELSE verify_exclusions(r.merkle_root, <<to_key(el)>>, prf)

----------------------------------------------------------------------------
(* Inputs *)

Range(s) == {s[i] : i \in 1..Len(s)}

\* lists of pairwise distinct elements of length lo..hi
DistinctSeqs(lo, hi) ==
    {s \in UNION {[1..n -> Elements] : n \in lo..hi} :
        \A i, j \in 1..Len(s) : i # j => s[i] # s[j]}

\* the elements of a set in increasing order
RECURSIVE SortedSeq(_)
SortedSeq(S) ==
    IF S = {} THEN <<>>
    ELSE LET m == CHOOSE x \in S : \A y \in S : x <= y
         IN <<m>> \o SortedSeq(S \ {m})

\* every tree obtained from t by compressing any choice of subtrees
RECURSIVE Projections(_)
Projections(t) ==
    IF ~IsNode(t) THEN {t}
    ELSE {compress(t)} \cup
         {Node(t.key, t.prior, l, r, FALSE) :
             l \in Projections(t.left), r \in Projections(t.right)}

----------------------------------------------------------------------------
(* State machine: a tree holder and an accumulator holder *)

NoAcc == PyNone

\* the record of the last call: its name, arguments, outcome, the tree root
\* before it and the proof it was given
Call(op, els, prove, err, pre, prf) ==
    [op |-> op, els |-> els, prove |-> prove, err |-> err, pre |-> pre, prf |-> prf]

\* the proof the tree holder produced last, with the call that made it and
\* the elements it was made for (els: inserted or proved, rem: removed)
Proof(by, els, rem, tree) == [by |-> by, els |-> els, rem |-> rem, tree |-> tree]

NoProof == Proof("none", <<>>, <<>>, Nil)

Init ==
    /\ root = Nil
    /\ elements = {}
    /\ acc = NoAcc
    /\ ctree = Nil
    /\ proof = NoProof
    /\ last = Call("init", <<>>, FALSE, OK, Nil, Nil)

\* build_treaccp(els)
Build(els) ==
    \E r \in {build_treap(els)} :
       /\ r.err = OK
       /\ root' = r.val
       /\ elements' = Range(els)
       /\ acc' = NoAcc
       /\ ctree' = Nil
       /\ proof' = NoProof
       /\ last' = Call("build", els, FALSE, OK, Nil, Nil)

\* acc = tree.to_acc()
ToAcc ==
    \E a \in {to_acc(root)} :
       /\ acc' = IF a.err = OK THEN a.val ELSE acc
       /\ last' = Call("to_acc", <<>>, FALSE, a.err, root, Nil)
       /\ UNCHANGED <<root, elements, proof, ctree>>

\* tree, proof = tree.insert_many(els, prove)
InsertMany(els, prove) ==
    \E r \in {Treaccp_insert_many(root, els, prove)} :
       /\ root' = IF r.err = OK THEN r.val ELSE root
       /\ elements' = IF r.err = OK THEN elements \cup Range(els) ELSE elements
       /\ proof' = IF r.err = OK THEN Proof("insert_many", els, <<>>, r.proof)
                   ELSE NoProof
       /\ last' = Call("insert_many", els, prove, r.err, root, Nil)
       /\ UNCHANGED <<acc, ctree>>

\* tree, proof = tree.remove_many(els, prove)
RemoveMany(els, prove) ==
    \E r \in {Treaccp_remove_many(root, els, prove)} :
       /\ root' = IF r.err = OK THEN r.val ELSE root
       /\ elements' = IF r.err = OK THEN elements \ Range(els) ELSE elements
       /\ proof' = IF r.err = OK THEN Proof("remove_many", <<>>, els, r.proof)
                   ELSE NoProof
       /\ last' = Call("remove_many", els, prove, r.err, root, Nil)
       /\ UNCHANGED <<acc, ctree>>

\* acc, ctree = acc.insert_many(els, prf), or acc, _ = ... when the caller
\* does not keep the returned tree
AccInsertMany(els, prf, keep) ==
    \E r \in {Acc_insert_many(acc, els, prf)} :
       /\ acc' = IF r.err = OK THEN r.val ELSE acc
       /\ ctree' = IF r.err = OK /\ keep THEN r.tree ELSE ctree
       /\ last' = Call("acc_insert_many", els, FALSE, r.err, last.pre, prf)
       /\ UNCHANGED <<root, elements, proof>>

\* acc, ctree = acc.remove_many(els, prf), or acc, _ = ...
AccRemoveMany(els, prf, keep) ==
    \E r \in {Acc_remove_many(acc, els, prf)} :
       /\ acc' = IF r.err = OK THEN r.val ELSE acc
       /\ ctree' = IF r.err = OK /\ keep THEN r.tree ELSE ctree
       /\ last' = Call("acc_remove_many", els, FALSE, r.err, last.pre, prf)
       /\ UNCHANGED <<root, elements, proof>>

\* proof = tree.prove_inclusion(el)
ProveInclusion(el) ==
    \E r \in {Treaccp_prove_inclusion(root, el)} :
       /\ proof' = IF r.err = OK THEN Proof("prove_inclusion", <<el>>, <<>>, r.val)
                   ELSE NoProof
       /\ last' = Call("prove_inclusion", <<el>>, FALSE, r.err, root, Nil)
       /\ UNCHANGED <<root, elements, acc, ctree>>

\* proof = tree.prove_exclusion(el)
ProveExclusion(el) ==
    \E r \in {Treaccp_prove_exclusion(root, el)} :
       /\ proof' = IF r.err = OK THEN Proof("prove_exclusion", <<el>>, <<>>, r.val)
                   ELSE NoProof
       /\ last' = Call("prove_exclusion", <<el>>, FALSE, r.err, root, Nil)
       /\ UNCHANGED <<root, elements, acc, ctree>>

\* tree.verify_inclusion(el, prf)
VerifyInclusion(el, prf) ==
    \E r \in {Treaccp_verify_inclusion(root, el, prf)} :
       /\ last' = Call("verify_inclusion", <<el>>, FALSE, r.err, root, prf)
       /\ UNCHANGED <<root, elements, acc, ctree, proof>>

\* tree.verify_exclusion(el, prf)
VerifyExclusion(el, prf) ==
    \E r \in {Treaccp_verify_exclusion(root, el, prf)} :
       /\ last' = Call("verify_exclusion", <<el>>, FALSE, r.err, root, prf)
       /\ UNCHANGED <<root, elements, acc, ctree, proof>>

\* the proofs of a batch, all taken on the current tree and joined:
\* join_proofs([tree.insert_proof(e) for e in ins]
\*             + [tree.remove_proof(e) for e in rem])
batch_proofs(r, ins, rem) ==
    LET both(pi, pr) ==
            IF pr.err # OK THEN pr ELSE join_proofs(pi.val \o pr.val)
        with(pi) ==
            IF pi.err # OK THEN pi
            ELSE both(pi, proofs_of(r, Keys(rem), FALSE))
    IN IF IsNone(r) THEN Raise("AttributeError")
       ELSE with(proofs_of(r, Keys(ins), TRUE))

BatchProofs(ins, rem) ==
    \E r \in {batch_proofs(root, ins, rem)} :
       /\ proof' = IF r.err = OK THEN Proof("batch", ins, rem, r.val) ELSE NoProof
       /\ last' = Call("batch_proofs", ins \o rem, TRUE, r.err, root, Nil)
       /\ UNCHANGED <<root, elements, acc, ctree>>

\* acc, ctree = acc.warp(prf, added, removed, new_proof)
Warp(prf, added, removed, new_proof) ==
    \E r \in {Acc_warp(acc, prf, Range(added), Range(removed), new_proof)} :
       /\ acc' = IF r.err = OK THEN r.val ELSE acc
       /\ ctree' = IF r.err = OK THEN r.tree ELSE ctree
       /\ last' = Call("warp", added \o removed, FALSE, r.err, last.pre, new_proof)
       /\ UNCHANGED <<root, elements, proof>>

\* acc.verify_inclusion(el, prf)
AccVerifyInclusion(el, prf) ==
    \E r \in {Acc_verify_inclusions(acc, <<el>>, prf)} :
       /\ last' = Call("acc_verify_inclusion", <<el>>, FALSE, r.err, root, prf)
       /\ UNCHANGED <<root, elements, acc, ctree, proof>>

\* acc.verify_exclusion(el, prf)
AccVerifyExclusion(el, prf) ==
    \E r \in {Acc_verify_exclusions(acc, <<el>>, prf)} :
       /\ last' = Call("acc_verify_exclusion", <<el>>, FALSE, r.err, root, prf)
       /\ UNCHANGED <<root, elements, acc, ctree, proof>>

\* tree, _ = tree.insert(el, prove=False) by a caller who keeps the proof
\* taken earlier
InsertKeepingProof(el) ==
    \E r \in {Treaccp_insert_many(root, <<el>>, FALSE)} :
       /\ root' = IF r.err = OK THEN r.val ELSE root
       /\ elements' = IF r.err = OK THEN elements \cup {el} ELSE elements
       /\ last' = Call("insert_many", <<el>>, FALSE, r.err, root, Nil)
       /\ UNCHANGED <<acc, ctree, proof>>

\* tree, _ = tree.remove(el, prove=False) by a caller who keeps the proof
\* taken earlier
RemoveKeepingProof(el) ==
    \E r \in {Treaccp_remove_many(root, <<el>>, FALSE)} :
       /\ root' = IF r.err = OK THEN r.val ELSE root
       /\ elements' = IF r.err = OK THEN elements \ {el} ELSE elements
       /\ last' = Call("remove_many", <<el>>, FALSE, r.err, root, Nil)
       /\ UNCHANGED <<acc, ctree, proof>>

\* the accumulator holder is handed a proof of the tree together with the
\* elements it is told were added and removed
HandProof(prf, added, removed) ==
    /\ proof' = Proof("handed", added, removed, prf)
    /\ last' = Call("hand_proof", added \o removed, FALSE, OK, root, prf)
    /\ UNCHANGED <<root, elements, acc, ctree>>

\* joined = join_proofs([p1, p2]); the call record keeps p1 as pre and p2 as
\* prf
JoinProofs(p1, p2) ==
    \E r \in {join_proofs(<<p1, p2>>)} :
       /\ proof' = IF r.err = OK THEN Proof("join_proofs", <<>>, <<>>, r.val)
                   ELSE NoProof
       /\ last' = Call("join_proofs", <<>>, FALSE, r.err, p1, p2)
       /\ UNCHANGED <<root, elements, acc, ctree>>

\* the calls that change the tree, and those that change the accumulator
TreeOps == {"insert_many", "remove_many"}
AccOps == {"acc_insert_many", "acc_remove_many"}

\* an exception ends the run: calls are made while the last one succeeded
Running == last.err = OK

\* the accumulator holder follows the tree holder: the tree's last call
\* succeeded with prove=True and the accumulator held the digest of the tree
\* that call was made on
Following(op) ==
    /\ Running
    /\ last.op = op
    /\ last.prove
    /\ acc = Treaccp_merkle_root(last.pre)

\* the tree holder makes its next call once the accumulator holder has
\* caught up; it asks for a proof exactly when an accumulator follows it
MayMove(prove) ==
    /\ Running
    /\ \/ acc = NoAcc /\ ~prove
       \/ acc # NoAcc /\ prove /\ acc = Treaccp_merkle_root(root)

Next ==
    \/ last.op = "init" /\ \E els \in DistinctSeqs(0, MaxEl) : Build(els)
    \/ Running /\ last.op # "init" /\ ToAcc
    \/ \E els \in DistinctSeqs(1, MaxBatch), prove \in BOOLEAN :
          MayMove(prove) /\ InsertMany(els, prove)
    \/ \E els \in DistinctSeqs(1, MaxBatch), prove \in BOOLEAN :
          MayMove(prove) /\ RemoveMany(els, prove)
    \/ Following("insert_many") /\ AccInsertMany(last.els, proof.tree, FALSE)
    \/ Following("remove_many") /\ AccRemoveMany(last.els, proof.tree, FALSE)

Spec == Init /\ [][Next]_vars

----------------------------------------------------------------------------
(* Proofs of one tree: SpecProof *)

\* the trees: build of every set of elements
BuildAny == last.op = "init" /\ \E S \in SUBSET Elements : Build(SortedSeq(S))

\* the proofs a verifier may be handed for the current tree: any compressed
\* projection of it, and the proof the tree holder made last
ProofsAtHand ==
    Projections(root) \cup (IF IsNone(proof.tree) THEN {} ELSE {proof.tree})

NextProof ==
    \/ BuildAny
    \/ Running /\ last.op # "init" /\ \E el \in Elements : ProveInclusion(el)
    \/ Running /\ last.op # "init" /\ \E el \in Elements : ProveExclusion(el)
    \/ Running /\ last.op # "init" /\
          \E el \in Elements, prf \in ProofsAtHand : VerifyInclusion(el, prf)
    \/ Running /\ last.op # "init" /\
          \E el \in Elements, prf \in ProofsAtHand : VerifyExclusion(el, prf)

SpecProof == Init /\ [][NextProof]_vars

----------------------------------------------------------------------------
(* An accumulator handed arbitrary proofs of its tree: SpecAcc *)

NextAcc ==
    \/ BuildAny
    \/ last.op = "build" /\ ToAcc
    \/ Running /\ last.op = "to_acc" /\
          \E el \in Elements, prf \in Projections(root) :
              AccInsertMany(<<el>>, prf, TRUE)
    \/ Running /\ last.op = "to_acc" /\
          \E el \in Elements, prf \in Projections(root) :
              AccRemoveMany(<<el>>, prf, TRUE)

SpecAcc == Init /\ [][NextAcc]_vars

----------------------------------------------------------------------------
(* Proofs used after the tree has changed: SpecStale *)

ProveOps == {"prove_inclusion", "prove_exclusion"}
VerifyOps == {"verify_inclusion", "verify_exclusion"}
AccVerifyOps == {"acc_verify_inclusion", "acc_verify_exclusion"}

\* a proof is taken, the tree is changed by one insert or remove, and the
\* proof is then verified by the new tree or by its accumulator, or handed
\* to the accumulator of the new tree for an insert, a remove or a warp
NextStale ==
    \/ BuildAny
    \/ last.op = "build" /\ \E el \in Elements : ProveInclusion(el)
    \/ last.op = "build" /\ \E el \in Elements : ProveExclusion(el)
    \/ Running /\ last.op \in ProveOps /\ \E el \in Elements : InsertKeepingProof(el)
    \/ Running /\ last.op \in ProveOps /\ \E el \in Elements : RemoveKeepingProof(el)
    \/ Running /\ last.op \in TreeOps /\ ToAcc
    \/ Running /\ last.op \in TreeOps /\
          \E el \in Elements : VerifyInclusion(el, proof.tree)
    \/ Running /\ last.op \in TreeOps /\
          \E el \in Elements : VerifyExclusion(el, proof.tree)
    \/ Running /\ last.op = "to_acc" /\
          \E el \in Elements : AccVerifyInclusion(el, proof.tree)
    \/ Running /\ last.op = "to_acc" /\
          \E el \in Elements : AccVerifyExclusion(el, proof.tree)
    \/ Running /\ last.op = "to_acc" /\
          \E el \in Elements : AccInsertMany(<<el>>, proof.tree, TRUE)
    \/ Running /\ last.op = "to_acc" /\
          \E el \in Elements : AccRemoveMany(<<el>>, proof.tree, TRUE)
    \/ Running /\ last.op = "to_acc" /\
          \E el \in Elements : Warp(proof.tree, <<el>>, <<>>, root)
    \/ Running /\ last.op = "to_acc" /\
          \E el \in Elements : Warp(proof.tree, <<>>, <<el>>, root)

SpecStale == Init /\ [][NextStale]_vars

----------------------------------------------------------------------------
(* Batches replayed and warped: SpecWarp *)

\* the nodes of a proof as items to rearrange: its Regular keys and its
\* Compressed nodes
RECURSIVE Items(_)
Items(t) ==
    IF IsNone(t) THEN {}
    ELSE IF IsCompressed(t) THEN {t}
    ELSE Items(t.left) \cup {[tag |-> "N", key |-> t.key, prior |-> t.prior]}
             \cup Items(t.right)

\* every tree over the items S that is_treap accepts: the highest priority
\* at the root, the other items spread over the two sides in any way, every
\* child on the right side of its parent's key, Compressed nodes as leaves
RECURSIVE Arrangements(_)
Arrangements(S) ==
    IF S = {} THEN {Nil}
    ELSE LET top == CHOOSE x \in S : \A y \in S : x.prior >= y.prior
             rest == S \ {top}
         IN IF IsCompressed(top) THEN (IF rest = {} THEN {top} ELSE {})
            ELSE UNION {
                   {Node(top.key, top.prior, l, r, TRUE) :
                       l \in {x \in Arrangements(A) : IsNone(x) \/ x.key < top.key},
                       r \in {x \in Arrangements(rest \ A) :
                                 IsNone(x) \/ x.key > top.key}} :
                   A \in SUBSET rest}

\* the new proofs an adversary who knows the old proof and the batch may
\* hand to warp: the old proof's nodes without the removed keys and with the
\* added ones, arranged in any way is_treap accepts
Forged(prf, added, removed) ==
    Arrangements(
        {x \in Items(prf) : ~(IsNode(x) /\ x.key \in {to_key(el) : el \in Range(removed)})}
        \cup {[tag |-> "N", key |-> to_key(el), prior |-> to_priority(to_key(el))] :
                 el \in Range(added)})

\* the lists of a batch: elements to insert and elements to remove
Batches ==
    {b \in DistinctSeqs(0, MaxBatch) \X DistinctSeqs(0, MaxBatch) :
        /\ Len(b[1]) + Len(b[2]) > 0
        /\ Range(b[1]) \cap Range(b[2]) = {}}

NextWarp ==
    \/ BuildAny
    \/ Running /\ last.op \in {"build", "acc_remove_many"} /\ ToAcc
    \/ Running /\ last.op = "to_acc" /\ proof.by = "none" /\
          \E b \in Batches : BatchProofs(b[1], b[2])
    \/ Running /\ last.op = "batch_proofs" /\
          AccInsertMany(proof.els, proof.tree, TRUE)
    \/ Running /\ last.op = "acc_insert_many" /\
          AccRemoveMany(proof.rem, ctree, TRUE)
    \/ Running /\ last.op = "to_acc" /\ proof.by = "batch" /\
          Warp(proof.tree, proof.els, proof.rem, ctree)
    \/ Running /\ last.op = "batch_proofs" /\
          \E forged \in Forged(proof.tree, proof.els, proof.rem) :
              Warp(proof.tree, proof.els, proof.rem, forged)

SpecWarp == Init /\ [][NextWarp]_vars

----------------------------------------------------------------------------
(* Warp of an accumulator handed any projection: SpecWarpAny *)

\* the accumulator is handed a projection of its tree and one element said
\* to be added; warp is then called with any new proof made of the nodes of
\* the projection and a node for the element
NextWarpAny ==
    \/ BuildAny
    \/ last.op = "build" /\ ToAcc
    \/ Running /\ last.op = "to_acc" /\
          \E prf \in Projections(root), el \in Elements : HandProof(prf, <<el>>, <<>>)
    \/ last.op = "hand_proof" /\
          \E forged \in Forged(proof.tree, proof.els, proof.rem) :
              Warp(proof.tree, proof.els, proof.rem, forged)

SpecWarpAny == Init /\ [][NextWarpAny]_vars

----------------------------------------------------------------------------
(* Warp handed arguments that must not pass: SpecWarpBad *)

\* a proof with the two children of every Regular node exchanged
RECURSIVE Mirror(_)
Mirror(t) ==
    IF ~IsNode(t) THEN t
    ELSE Node(t.key, t.prior, Mirror(t.right), Mirror(t.left), TRUE)

\* a proof with another left_hash in every Compressed node
RECURSIVE Tampered(_)
Tampered(t) ==
    IF IsNone(t) THEN t
    ELSE IF IsCompressed(t) THEN CompressedNode(t.key, t.merkle_root, t.right_hash)
    ELSE Node(t.key, t.prior, Tampered(t.left), Tampered(t.right), TRUE)

\* the new proofs handed to warp: the arrangements is_treap accepts of the
\* nodes the batch leaves, the same with children exchanged or Compressed
\* nodes altered, and arrangements of the old proof's nodes alone
NewProofs(prf, added, removed) ==
    LET F == Forged(prf, added, removed)
    IN F \cup {Mirror(t) : t \in F} \cup {Tampered(t) : t \in F}
         \cup Forged(prf, <<>>, <<>>)

\* the accumulator is handed a projection of its tree with any lists of at
\* most one added and one removed element, then warp is called with one of
\* the new proofs
NextWarpBad ==
    \/ BuildAny
    \/ last.op = "build" /\ ToAcc
    \/ Running /\ last.op = "to_acc" /\
          \E prf \in Projections(root), added \in DistinctSeqs(0, 1),
             removed \in DistinctSeqs(0, 1) : HandProof(prf, added, removed)
    \/ last.op = "hand_proof" /\
          \E new_proof \in NewProofs(proof.tree, proof.els, proof.rem) :
              Warp(proof.tree, proof.els, proof.rem, new_proof)

SpecWarpBad == Init /\ [][NextWarpBad]_vars

----------------------------------------------------------------------------
(* is_treap handed any tree: SpecTreap *)

\* is_treap(t)
IsTreap(t) ==
    \E r \in {is_treap(t)} :
       /\ last' = Call("is_treap", <<>>, FALSE, r.err, root, t)
       /\ UNCHANGED <<root, elements, acc, ctree, proof>>

\* every binary tree of Nodes holding each key of K once, in any shape and
\* any order
RECURSIVE Shapes(_)
Shapes(K) ==
    IF K = {} THEN {Nil}
    ELSE UNION {
           UNION {
             {Node(k, -1, l, r, TRUE) : l \in Shapes(A), r \in Shapes((K \ {k}) \ A)} :
             A \in SUBSET (K \ {k})} :
           k \in K}

\* the trees handed to is_treap: the trees of any shape over the keys of the
\* tree that was built, with any choice of subtrees compressed
Candidates == UNION {Projections(s) : s \in Shapes(collect_keys(root))}

NextTreap ==
    \/ BuildAny
    \/ last.op = "build" /\ ~IsNone(root) /\ \E t \in Candidates : IsTreap(t)

SpecTreap == Init /\ [][NextTreap]_vars

----------------------------------------------------------------------------
(* Proofs for a mutation asked of the tree: SpecMutationProof *)

\* proof = tree.insert_proof(el)
InsertProof(el) ==
    \E r \in {Treaccp_insert_proof(root, el)} :
       /\ proof' = IF r.err = OK THEN Proof("insert_proof", <<el>>, <<>>, r.val)
                   ELSE NoProof
       /\ last' = Call("insert_proof", <<el>>, FALSE, r.err, root, Nil)
       /\ UNCHANGED <<root, elements, acc, ctree>>

\* proof = tree.remove_proof(el)
RemoveProof(el) ==
    \E r \in {Treaccp_remove_proof(root, el)} :
       /\ proof' = IF r.err = OK THEN Proof("remove_proof", <<>>, <<el>>, r.val)
                   ELSE NoProof
       /\ last' = Call("remove_proof", <<el>>, FALSE, r.err, root, Nil)
       /\ UNCHANGED <<root, elements, acc, ctree>>

\* the accumulator holder replays the mutation the proof was asked for
NextMutationProof ==
    \/ BuildAny
    \/ last.op = "build" /\ ToAcc
    \/ Running /\ last.op = "to_acc" /\ \E el \in Elements : InsertProof(el)
    \/ Running /\ last.op = "to_acc" /\ \E el \in Elements : RemoveProof(el)
    \/ Running /\ last.op = "insert_proof" /\ AccInsertMany(proof.els, proof.tree, TRUE)
    \/ Running /\ last.op = "remove_proof" /\ AccRemoveMany(proof.rem, proof.tree, TRUE)

SpecMutationProof == Init /\ [][NextMutationProof]_vars

----------------------------------------------------------------------------
(* Node.verify_inclusions handed any proof with the tree's root: SpecVerify *)

\* int(s) for a decimal text s
RECURSIVE int(_)
int(s) == IF s = <<>> THEN 0 ELSE 10 * int(SubSeq(s, 1, Len(s) - 1)) + s[Len(s)]

\* the other pairs (key, prior) with the same text str(key) + str(prior)
Reframings(key, prior) ==
    LET text == str(key) \o str(prior)
        parts == {<<SubSeq(text, 1, i), SubSeq(text, i + 1, Len(text))>> :
                     i \in 1..(Len(text) - 1)}
        written == {p \in parts : str(int(p[1])) = p[1] /\ str(int(p[2])) = p[2]}
    IN {<<int(p[1]), int(p[2])>> : p \in written} \ {<<key, prior>>}

\* the proofs made from t with Node(key, prior, left, right) where any
\* Regular node is given another pair (key, prior) of the same text
RECURSIVE Reframed(_)
Reframed(t) ==
    IF ~IsNode(t) THEN {t}
    ELSE {Node(kp[1], kp[2], l, r, TRUE) :
             kp \in {<<t.key, t.prior>>} \cup Reframings(t.key, t.prior),
             l \in Reframed(t.left), r \in Reframed(t.right)}

\* the proofs a verifier may be handed: the projections of the tree and
\* their reframings; all of them recompute to the tree's Merkle root
ProofsHanded == UNION {Reframed(p) : p \in Projections(root)}

\* the lists of one or two keys a verifier may ask about: keys of elements
\* and keys that appear in the proof, in increasing order
KeyLists(prf) ==
    LET K == {to_key(el) : el \in Elements} \cup collect_keys(prf)
    IN {<<k>> : k \in K} \cup
       {<<k[1], k[2]>> : k \in {x \in K \X K : x[1] < x[2]}}

\* root.verify_inclusions(keys, prf); the call record holds the keys
NodeVerifyInclusions(keys, prf) ==
    \E r \in {verify_inclusions(root.merkle_root, keys, prf)} :
       /\ last' = Call("node_verify_inclusions", keys, FALSE, r.err, root, prf)
       /\ UNCHANGED <<root, elements, acc, ctree, proof>>

NextVerify ==
    \/ BuildAny
    \/ last.op = "build" /\ ~IsNone(root) /\
          \E prf \in ProofsHanded : \E keys \in KeyLists(prf) :
              NodeVerifyInclusions(keys, prf)

SpecVerify == Init /\ [][NextVerify]_vars

----------------------------------------------------------------------------
(* Joining proofs: SpecJoin *)

\* the trees of the other sets of elements
OtherTrees ==
    {build_treap(SortedSeq(S)).val : S \in (SUBSET Elements) \ {{}, elements}}

\* two projections of the tree are joined, or a projection of the tree and
\* another tree
NextJoin ==
    \/ BuildAny
    \/ last.op = "build" /\ ~IsNone(root) /\
          \E p1 \in Projections(root), p2 \in Projections(root) : JoinProofs(p1, p2)
    \/ last.op = "build" /\ ~IsNone(root) /\
          \E p1 \in Projections(root), p2 \in OtherTrees : JoinProofs(p1, p2)

SpecJoin == Init /\ [][NextJoin]_vars

----------------------------------------------------------------------------
(* Properties of sessions (Spec) *)

\* C1: build yields the same Merkle root for every insertion order of the
\* same set of distinct elements
C1_OrderIndependence ==
    last.op = "build" =>
        \A els \in DistinctSeqs(0, MaxEl) :
            Range(els) = Range(last.els) =>
                Treaccp_merkle_root(build_treap(els).val) = Treaccp_merkle_root(root)

\* a tree of three or more elements was built in an order that is not the
\* increasing one, and its root has two children
C1_Witness ==
    /\ last.op = "build"
    /\ Len(last.els) >= 3
    /\ last.els # SortedSeq(elements)
    /\ IsNode(root.left)
    /\ IsNode(root.right)

\* C2: an accumulator that replays each single insert or remove of the tree
\* with the proof the tree returned succeeds and holds the tree's Merkle root
C2_AccumulatorEquivalence ==
    (last.op \in AccOps /\ Len(last.els) = 1) =>
        /\ last.err = OK
        /\ acc = Treaccp_merkle_root(root)

C10_RemoveAbsentFails ==
    (/\ last.op = "remove_many"
     /\ Len(last.els) = 1
     /\ ~IsNone(last.pre)
     /\ to_key(last.els[1]) \notin collect_keys(last.pre)) =>
        last.err = "ErrKeyNotInTree"

\* C11: insert_many with an element whose key is in the tree fails with
\* KeyInTree, with or without a proof asked for, and the tree stays as it was
C11_InsertPresentFails ==
    (/\ last.op = "insert_many"
     /\ \E i \in 1..Len(last.els) : to_key(last.els[i]) \in collect_keys(last.pre)) =>
        /\ last.err = "ErrKeyInTree"
        /\ root = last.pre
        /\ elements = {el \in Elements : to_key(el) \in collect_keys(last.pre)}

\* a batch without proof whose first element is new and whose second is in
\* the tree was refused
C11_Witness ==
    /\ last.op = "insert_many"
    /\ ~last.prove
    /\ Len(last.els) = 2
    /\ to_key(last.els[1]) \notin collect_keys(last.pre)
    /\ to_key(last.els[2]) \in collect_keys(last.pre)
    /\ last.err = "ErrKeyInTree"

\* the elements the tree held before the last call of the tree holder
ElementsBefore == {el \in Elements : to_key(el) \in collect_keys(last.pre)}

\* C12: a successful insert or remove of one element returns a tree with
\* another Merkle root, and the tree it was called on still has its Merkle
\* root, recomputes to it, and finds exactly the keys it held
C12_Persistence ==
    (last.op \in TreeOps /\ Len(last.els) = 1 /\ last.err = OK) =>
        /\ Treaccp_merkle_root(root) # Treaccp_merkle_root(last.pre)
        /\ compute_merkle_root(last.pre) = [err |-> OK, val |-> last.pre.merkle_root]
        /\ \A el \in Elements :
              ~IsNone(find(last.pre, to_key(el)).val) <=> el \in ElementsBefore
        /\ elements = IF last.op = "insert_many"
                      THEN ElementsBefore \cup {last.els[1]}
                      ELSE ElementsBefore \ {last.els[1]}

\* the order a treap has: every key of a left subtree smaller and every key
\* of a right subtree larger than the node's, every child of lower priority
RECURSIVE TreapOrder(_)
TreapOrder(t) ==
    IF ~IsNode(t) THEN TRUE
    ELSE /\ \A k \in collect_keys(t.left) : k < t.key
         /\ \A k \in collect_keys(t.right) : k > t.key
         /\ IsNone(t.left) \/ t.left.prior < t.prior
         /\ IsNone(t.right) \/ t.right.prior < t.prior
         /\ TreapOrder(t.left)
         /\ TreapOrder(t.right)

\* an empty tree, or a tree in treap order that is_treap accepts
ValidTreap(t) == IsNone(t) \/ (TreapOrder(t) /\ is_treap(t) = [err |-> OK, val |-> TRUE])

\* the tree a successful accumulator call of the session rebuilt
ReplayedTree ==
    Acc_mutate_many(Treaccp_merkle_root(last.pre), last.els, last.prf,
                    last.op = "acc_insert_many").tree

\* C13: the tree, the proof returned with it, the inclusion and exclusion
\* proofs of the tree and the tree an accumulator replay rebuilds are in
\* treap order and pass is_treap
C13_TreapValidity ==
    /\ ValidTreap(root)
    /\ ValidTreap(proof.tree)
    /\ \A el \in Elements :
          /\ LET p == Treaccp_prove_inclusion(root, el)
             IN p.err = OK => ValidTreap(p.val)
          /\ LET p == Treaccp_prove_exclusion(root, el)
             IN p.err = OK => ValidTreap(p.val)
    /\ (last.op \in AccOps /\ last.err = OK) => ValidTreap(ReplayedTree)

\* an accumulator replayed a batch of two with a joined proof that hides
\* part of the tree, and rebuilt a tree of three or more keys
C13_Witness ==
    /\ last.op \in AccOps
    /\ last.err = OK
    /\ Len(last.els) = 2
    /\ \E x \in collect_keys_extended(last.prf) : x[2] = "C"
    /\ Cardinality(collect_keys(ReplayedTree)) >= 3
    /\ IsNode(root)
    /\ IsNode(root.left) \/ IsNode(root.right)

\* every node of t stores the digest recomputed from its whole subtree
RECURSIVE MerkleConsistent(_)
MerkleConsistent(t) ==
    IF IsNone(t) THEN TRUE
    ELSE /\ t.merkle_root = Recomputed(t)
         /\ IsNode(t) => MerkleConsistent(t.left) /\ MerkleConsistent(t.right)

\* C14: every node of the tree, of the proof returned with it, of the
\* inclusion and exclusion proofs of the tree and of the tree an accumulator
\* replay rebuilds stores the Merkle root recomputed from its subtree
C14_MerkleConsistency ==
    /\ MerkleConsistent(root)
    /\ MerkleConsistent(proof.tree)
    /\ \A el \in Elements :
          /\ LET p == Treaccp_prove_inclusion(root, el)
             IN p.err = OK => MerkleConsistent(p.val)
          /\ LET p == Treaccp_prove_exclusion(root, el)
             IN p.err = OK => MerkleConsistent(p.val)
    /\ (last.op \in AccOps /\ last.err = OK) => MerkleConsistent(ReplayedTree)

\* a remove_many with proof left a tree of three levels whose nodes were
\* rebuilt by split and merge, and returned a proof that hides a subtree
C14_Witness ==
    /\ last.op = "remove_many"
    /\ last.err = OK
    /\ last.prove
    /\ \E x \in collect_keys_extended(proof.tree) : x[2] = "C"
    /\ IsNode(root)
    /\ \E c \in {root.left, root.right} :
          IsNode(c) /\ (IsNode(c.left) \/ IsNode(c.right))

----------------------------------------------------------------------------
(* Properties of accumulators handed projections (SpecAcc) *)

AccFailures == {"ErrTouchedCompressedNode", "ErrKeyInTree", "ErrKeyNotInTree"}

\* C4: an accumulator step made with a compressed projection of the tree
\* fails with TouchedCompressedNode, KeyInTree or KeyNotInTree, or installs
\* the Merkle root of the same insert or remove made on the full tree; an
\* element of the tree is never accepted by the accumulator's insert
C4_NeverWrongDigest ==
    (last.op \in AccOps /\ last.prf \in Projections(root)) =>
        LET full == IF last.op = "acc_insert_many"
                    THEN insert(root, to_key(last.els[1]))
                    ELSE remove(root, to_key(last.els[1]))
        IN /\ \/ last.err \in AccFailures
              \/ /\ last.err = OK
                 /\ full.err = OK
                 /\ acc = Treaccp_merkle_root(full.val)
           /\ (last.op = "acc_insert_many" /\ last.els[1] \in elements) =>
                  last.err # OK

----------------------------------------------------------------------------
(* Properties of proofs (SpecProof) *)

\* the verified proof is the one the tree made last for the same element
OwnProof(by) ==
    /\ proof.by = by
    /\ last.prf = proof.tree
    /\ last.els = proof.els

\* C8: on a non-empty tree prove_inclusion of a member and prove_exclusion of
\* a non-member succeed, and the tree verifies the proof it made
C8_ProofCompleteness ==
    /\ (last.op = "prove_inclusion" /\ last.els[1] \in elements) => last.err = OK
    /\ (last.op = "prove_exclusion" /\ last.els[1] \notin elements /\ ~IsNone(root)) =>
           last.err = OK
    /\ (/\ last.op = "verify_inclusion"
        /\ OwnProof("prove_inclusion")
        /\ last.els[1] \in elements) => last.err = OK
    /\ (/\ last.op = "verify_exclusion"
        /\ OwnProof("prove_exclusion")
        /\ last.els[1] \notin elements) => last.err = OK

\* the tree verified its own exclusion proof of a non-member whose search
\* ends below the root
C8_Witness ==
    /\ last.op = "verify_exclusion"
    /\ OwnProof("prove_exclusion")
    /\ last.els[1] \notin elements
    /\ IsNode(last.prf.left) \/ IsNode(last.prf.right)
    /\ last.err = OK

\* C9: verify_exclusion with a compressed projection of the tree succeeds
\* only for keys that are not in the tree; for a key of the tree it fails
\* with KeyInTree or InvalidProof
C9_ExclusionSoundness ==
    (last.op = "verify_exclusion" /\ last.prf \in Projections(root)) =>
        /\ last.err = OK => last.els[1] \notin elements
        /\ last.els[1] \in elements => last.err \in {"ErrKeyInTree", "ErrInvalidProof"}

\* verify_exclusion of a member was refused because the search hit a
\* compressed node of a partly compressed projection
C9_Witness ==
    /\ last.op = "verify_exclusion"
    /\ last.prf \in Projections(root)
    /\ IsNode(last.prf)
    /\ last.els[1] \in elements
    /\ last.err = "ErrInvalidProof"

\* where the search for key ends in the proof t: on a revealed node holding
\* it ("found"), on a compressed node ("hidden") or on an absent child
RECURSIVE SearchEnd(_, _)
SearchEnd(t, key) ==
    IF IsNone(t) THEN "absent"
    ELSE IF IsCompressed(t) THEN "hidden"
    ELSE IF t.key = key THEN "found"
    ELSE SearchEnd(IF key > t.key THEN t.right ELSE t.left, key)

\* the tree's own exclusion proof of one element is used to verify the
\* exclusion of another
OtherKey ==
    /\ last.op = "verify_exclusion"
    /\ proof.by = "prove_exclusion"
    /\ last.prf = proof.tree
    /\ last.els[1] # proof.els[1]

----------------------------------------------------------------------------
(* Properties of batches (SpecWarp) *)

\* the batch the last proof was made for is one the tree can apply
HonestBatch ==
    /\ proof.by = "batch"
    /\ Range(proof.els) \cap elements = {}
    /\ Range(proof.rem) \subseteq elements

\* the tree after insert_many(ins, prove=False), remove_many(rem, prove=False)
Applied(r, ins, rem) ==
    LET then(a) == IF a.err # OK THEN a ELSE remove_all(a.val, Keys(rem))
    IN then(insert_all(r, Keys(ins)))

\* acc.insert_many(ins, prf) followed by remove_many(rem, returned tree)
Replayed(digest, prf, ins, rem) ==
    LET then(a) == IF a.err # OK THEN a ELSE Acc_remove_many(a.val, rem, a.tree)
    IN then(Acc_insert_many(digest, ins, prf))

\* C3: a warp that returns installs the digest that replaying the batch on
\* the old proof yields, whatever new proof it was handed
C3_WarpSoundness ==
    (last.op = "warp" /\ last.err = OK) =>
        LET rp == Replayed(Treaccp_merkle_root(root), proof.tree, proof.els, proof.rem)
        IN rp.err = OK /\ acc = rp.val

\* C6: for an honest batch, warp with the joined proof and the proof tree
\* the replay returned succeeds and installs the digest of the replay
C6_WarpEquivalence ==
    LET rp == Replayed(Treaccp_merkle_root(root), proof.tree, proof.els, proof.rem)
    IN (last.op = "warp" /\ HonestBatch /\ rp.err = OK /\ last.prf = rp.tree) =>
           /\ last.err = OK
           /\ acc = rp.val
           /\ acc = Treaccp_merkle_root(Applied(root, proof.els, proof.rem).val)

\* warp succeeded for a batch that both inserts and removes
C6_Witness ==
    /\ last.op = "warp"
    /\ HonestBatch
    /\ last.prf = ctree
    /\ proof.els # <<>>
    /\ proof.rem # <<>>
    /\ last.err = OK

\* C7: the join of the insert and remove proofs taken on the original tree
\* is enough to replay the batch: the proofs can be made, neither
\* accumulator call fails, and the final digest is the Merkle root of the
\* tree after insert_many and remove_many
C7_BatchReplay ==
    HonestBatch =>
        /\ last.op = "batch_proofs" => last.err = OK
        /\ last.op = "acc_insert_many" => last.err = OK
        /\ last.op = "acc_remove_many" =>
              /\ last.err = OK
              /\ acc = Treaccp_merkle_root(Applied(root, proof.els, proof.rem).val)

----------------------------------------------------------------------------
(* Properties of proofs used after a change (SpecStale) *)

\* C16: a proof whose recomputed root differs from the root of the tree, or
\* from the digest of the accumulator, that verifies it is refused with
\* MerkleRootMismatch whatever key is asked for; every verification here
\* follows a successful insert or remove made after the proof was taken, and
\* none of them succeeds
C16_StaleProofRejected ==
    /\ (last.op \in VerifyOps /\ Recomputed(last.prf) # Treaccp_merkle_root(root)) =>
           last.err = "ErrMerkleRootMismatch"
    /\ (last.op \in AccVerifyOps /\ Recomputed(last.prf) # acc) =>
           last.err = "ErrMerkleRootMismatch"
    /\ last.op \in VerifyOps \cup AccVerifyOps => last.err = "ErrMerkleRootMismatch"

----------------------------------------------------------------------------
(* Properties of warp on any projection (SpecWarpAny) *)

\* C18: warp fails when the key of an added element is a key of the old
\* proof, on a Regular or on a Compressed node
C18_AddedKeyRejected ==
    (/\ last.op = "warp"
     /\ \E i \in 1..Len(proof.els) : to_key(proof.els[i]) \in collect_keys(proof.tree)) =>
        last.err # OK

----------------------------------------------------------------------------
(* Properties of joined proofs (SpecJoin) *)

\* C19: join_proofs of proofs with different Merkle roots fails with
\* InvalidProof
C19_JoinDifferentRoots ==
    (last.op = "join_proofs" /\ Recomputed(last.pre) # Recomputed(last.prf)) =>
        last.err = "ErrInvalidProof"

\* the keys on the Regular nodes and on the Compressed nodes of a proof
RegularKeys(t) == {x[1] : x \in {y \in collect_keys_extended(t) : y[2] = "N"}}
CompressedKeys(t) == {x[1] : x \in {y \in collect_keys_extended(t) : y[2] = "C"}}

\* the proofs joined last are both projections of the tree
SameTreeJoin ==
    /\ last.op = "join_proofs"
    /\ last.pre \in Projections(root)
    /\ last.prf \in Projections(root)

\* C20: the join of two projections of a tree is a projection of the tree
\* with the same Merkle root, Regular exactly where one of the two is
\* Regular and Compressed where one is Compressed and none is Regular; every
\* element whose inclusion or exclusion one of the two verifies is verified
\* by the join
C20_JoinOfProjections ==
    SameTreeJoin =>
        /\ last.err = OK
        /\ proof.tree.merkle_root = root.merkle_root
        /\ Recomputed(proof.tree) = root.merkle_root
        /\ proof.tree \in Projections(root)
        /\ RegularKeys(proof.tree) = RegularKeys(last.pre) \cup RegularKeys(last.prf)
        /\ CompressedKeys(proof.tree) =
               (CompressedKeys(last.pre) \cup CompressedKeys(last.prf))
                   \ RegularKeys(proof.tree)
        /\ \A el \in Elements, p \in {last.pre, last.prf} :
              /\ Treaccp_verify_inclusion(root, el, p).err = OK =>
                     Treaccp_verify_inclusion(root, el, proof.tree).err = OK
              /\ Treaccp_verify_exclusion(root, el, p).err = OK =>
                     Treaccp_verify_exclusion(root, el, proof.tree).err = OK

\* two proofs were joined of which each reveals a node the other hides, and
\* the join still hides part of the tree
C20_Witness ==
    /\ SameTreeJoin
    /\ last.err = OK
    /\ RegularKeys(last.pre) \ RegularKeys(last.prf) # {}
    /\ RegularKeys(last.prf) \ RegularKeys(last.pre) # {}
    /\ CompressedKeys(proof.tree) # {}


----------------------------------------------------------------------------
(* Properties of warp handed arguments that must not pass (SpecWarpBad) *)

\* the keys of a list of elements
KeySet(els) == {to_key(el) : el \in Range(els)}

\* the Compressed nodes of a proof with their Merkle roots
CompressedRoots(t) == {x \in collect_keys_extended(t) : x[2] = "C"}

\* the validation of warp that the call made last does not pass: the old
\* proof is proof.tree, the batch proof.els and proof.rem, the new proof
\* last.prf
WarpInvalid ==
    \/ Range(proof.els) \cap Range(proof.rem) # {}
    \/ ~(KeySet(proof.rem) \subseteq RegularKeys(proof.tree))
    \/ KeySet(proof.els) \cap collect_keys(proof.tree) # {}
    \/ RegularKeys(last.prf) \ RegularKeys(proof.tree) # KeySet(proof.els)
    \/ RegularKeys(last.prf)
           # (RegularKeys(proof.tree) \cup KeySet(proof.els)) \ KeySet(proof.rem)
    \/ CompressedKeys(last.prf) # CompressedKeys(proof.tree)
    \/ ~ValidTreap(last.prf)
    \/ CompressedRoots(last.prf) # CompressedRoots(proof.tree)

\* C21: a warp whose validation does not pass fails with InvalidProof
C21_WarpFailureKind ==
    (last.op = "warp" /\ ~IsNone(last.prf) /\ WarpInvalid) =>
        last.err = "ErrInvalidProof"

----------------------------------------------------------------------------
(* Properties of is_treap (SpecTreap) *)

\* C22: is_treap returns true only for a tree in which every key of a left
\* subtree is smaller and every key of a right subtree larger than the
\* node's, and every child has a lower priority; on any other tree it raises
C22_IsTreapGlobal ==
    last.op = "is_treap" =>
        /\ last.err = OK => TreapOrder(last.prf)
        /\ ~TreapOrder(last.prf) => last.err = "AssertionError"

----------------------------------------------------------------------------
(* Properties of proofs for a mutation (SpecMutationProof) *)

\* C23: on a non-empty tree insert_proof of an absent element and
\* remove_proof of a present one return a proof with the tree's Merkle root,
\* whatever other keys the tree holds; insert_proof of a present element
\* fails with KeyInTree and remove_proof of an absent one with KeyNotInTree
C23_MutationProofTotal ==
    /\ (last.op = "insert_proof" /\ last.els[1] \notin elements) =>
           /\ last.err = OK
           /\ Recomputed(proof.tree) = root.merkle_root
    /\ (last.op = "insert_proof" /\ last.els[1] \in elements) =>
           last.err = "ErrKeyInTree"
    /\ (last.op = "remove_proof" /\ last.els[1] \in elements) =>
           /\ last.err = OK
           /\ Recomputed(proof.tree) = root.merkle_root
    /\ (last.op = "remove_proof" /\ last.els[1] \notin elements) =>
           last.err = "ErrKeyNotInTree"

----------------------------------------------------------------------------
(* Properties of Node.verify_inclusions (SpecVerify) *)

\* C24: with a proof that recomputes to the tree's Merkle root,
\* verify_inclusions succeeds exactly when every requested key is on a node
\* of the proof, Regular or Compressed, and fails with InvalidProof
\* otherwise; a requested key that the tree does not hold fails with
\* InvalidProof, so every key of a successful verification is in the tree
C24_InclusionVerified ==
    (last.op = "node_verify_inclusions" /\ Recomputed(last.prf) = root.merkle_root) =>
        /\ last.err = OK <=> Range(last.els) \subseteq collect_keys(last.prf)
        /\ last.err \in {OK, "ErrInvalidProof"}
        /\ ~(Range(last.els) \subseteq collect_keys(root)) => last.err = "ErrInvalidProof"
        /\ last.err = OK => Range(last.els) \subseteq collect_keys(root)

----------------------------------------------------------------------------
(* Properties of the shape of proofs (SpecProof) *)

\* the last node the search for key visits in t, a Regular node
RECURSIVE LastOnPath(_, _)
LastOnPath(t, key) ==
    LET c == IF key >= t.key THEN t.right ELSE t.left
    IN IF t.key # key /\ IsNode(c) THEN LastOnPath(c, key) ELSE t

\* the tree made an exclusion proof of an element it does not hold
ExclusionProved ==
    /\ last.op = "prove_exclusion"
    /\ last.err = OK
    /\ proof.by = "prove_exclusion"

\* a child as a proof shows it when it is off the path: absent or compressed
Compressed(c) == IF IsNone(c) THEN Nil ELSE compress(c)

\* C25 as stated: in the proof returned by prove_exclusion both children of
\* the last node on the search path are uncompressed
C25_LastChildrenUncompressed ==
    ExclusionProved =>
        LET l == LastOnPath(proof.tree, to_key(proof.els[1]))
        IN ~IsCompressed(l.left) /\ ~IsCompressed(l.right)

\* C25 amended: in the proof returned by prove_exclusion the last node on
\* the search path is a Regular node with the key it has in the tree, its
\* child on the side of the searched key is absent, and its other child is
\* absent when the tree has none there and otherwise the Compressed node of
\* the tree's child
C25_LastChildrenAsInTree ==
    ExclusionProved =>
        LET key == to_key(proof.els[1])
            l == LastOnPath(proof.tree, key)
            n == LastOnPath(root, key)
        IN /\ IsNode(l)
           /\ l.key = n.key
           /\ IsNone(IF key >= l.key THEN l.right ELSE l.left)
           /\ l.left = Compressed(n.left)
           /\ l.right = Compressed(n.right)

\* an exclusion proof whose last node has a child in the tree, shown
\* Compressed in the proof
C25_Witness ==
    /\ ExclusionProved
    /\ LET l == LastOnPath(proof.tree, to_key(proof.els[1]))
       IN IsCompressed(l.left) \/ IsCompressed(l.right)

\* the nodes of a tree or proof with their places: the turns ("L", "R") from
\* the root, the key, the kind of node and the stored Merkle root
RECURSIVE Places(_, _)
Places(t, at) ==
    IF IsNone(t) THEN {}
    ELSE IF IsCompressed(t) THEN {<<at, t.key, "C", t.merkle_root>>}
    ELSE {<<at, t.key, "N", t.merkle_root>>}
           \cup Places(t.left, Append(at, "L"))
           \cup Places(t.right, Append(at, "R"))

\* the places the search for key visits in t, from the root to key's node
RECURSIVE PathPlaces(_, _, _)
PathPlaces(t, key, at) ==
    IF ~IsNode(t) THEN {}
    ELSE IF t.key = key THEN {at}
    ELSE IF key > t.key THEN {at} \cup PathPlaces(t.right, key, Append(at, "R"))
    ELSE {at} \cup PathPlaces(t.left, key, Append(at, "L"))

\* what the projection of t for key shows: the nodes on the path as Regular
\* nodes, the other children of the nodes on the path as Compressed nodes
\* with their Merkle roots, and nothing else
PathProjection(t, key) ==
    LET on == PathPlaces(t, key, <<>>)
        off == {x \in Places(t, <<>>) :
                   /\ x[1] \notin on
                   /\ SubSeq(x[1], 1, Len(x[1]) - 1) \in on}
    IN {x \in Places(t, <<>>) : x[1] \in on} \cup {<<x[1], x[2], "C", x[4]>> : x \in off}

====
